---- MODULE Spec2Model ----
(***************************************************************************)
(* Model of src/app.py: the Streamlit proposal report.                     *)
(*                                                                         *)
(* One execution of the script (a Streamlit "run") is a sequence of steps  *)
(* in source order: the credential gate, the session-state initialisation, *)
(* the "Buscar dados" handler, the filter section, the summary section and *)
(* the export section.  st.stop(), st.rerun() and an uncaught exception    *)
(* end the run where they happen.  Between runs the only state that        *)
(* survives is st.session_state.                                           *)
(*                                                                         *)
(* Text is modelled as a sequence of one-character strings where the code  *)
(* builds it character by character (number formatting), and money as an   *)
(* integer number of cents.                                                *)
(***************************************************************************)
EXTENDS Integers, Sequences, FiniteSets, TLC

\* Longest "content" array the remote API returns in the model.
MaxRecords == 2

-----------------------------------------------------------------------------
(* Values *)

\* JSON null / Python None / pandas NA inside a column.
Null == "<null>"

\* DataFrame column names, in the order of the dict literal (lines 118-124).
Columns ==
    << "Proposta ID", "Data", "Paciente ID", "Status",
       "Valor Total (R$)", "Profissional", "Unidade" >>

\* st.session_state.df_base = None (line 100), and a DataFrame of rows.
None == [kind |-> "None", rows |-> << >>]

DataFrame(rows) == [kind |-> "DataFrame", rows |-> rows]

\* Raw proposal objects the API may return.  The first five are well formed
\* (the fourth has no branch name, the fifth no status, professional or
\* patient: JSON null), the last two lack a key the normalisation reads.
RawRecords ==
    { [proposal_id |-> 1, proposal_date |-> "02-01-2026", PacienteID |-> "10",
       status |-> "Executada", value |-> 123456780, proposer_name |-> "Ana",
       unidade |-> [nome_fantasia |-> "X"]],
      [proposal_id |-> 2, proposal_date |-> "03-01-2026", PacienteID |-> "11",
       status |-> "Pendente", value |-> 0, proposer_name |-> "Ana",
       unidade |-> [nome_fantasia |-> "X"]],
      [proposal_id |-> 3, proposal_date |-> "03-01-2026", PacienteID |-> "10",
       status |-> "Executada", value |-> 50, proposer_name |-> "Bia",
       unidade |-> [nome_fantasia |-> "Y"]],
      [proposal_id |-> 4, proposal_date |-> "04-01-2026", PacienteID |-> "11",
       status |-> "", value |-> 99999, proposer_name |-> "Bia",
       unidade |-> [nome_fantasia |-> Null]],
      [proposal_id |-> 5, proposal_date |-> "05-01-2026", PacienteID |-> Null,
       status |-> Null, value |-> -1005, proposer_name |-> Null,
       unidade |-> [nome_fantasia |-> "Y"]],
      [proposal_id |-> 6, proposal_date |-> "05-01-2026", PacienteID |-> "11",
       value |-> 100, proposer_name |-> "Ana",
       unidade |-> [nome_fantasia |-> "X"]],
      [proposal_id |-> 7, proposal_date |-> "06-01-2026", PacienteID |-> "10",
       status |-> "Executada", value |-> 100, proposer_name |-> "Bia",
       unidade |-> [razao_social |-> "Y"]] }

\* Sequences over S of length 0..n.
SeqUpTo(S, n) == UNION { [1..k -> S] : k \in 0..n }

\* HTTP responses of the proposal/list endpoint: a status code and a JSON body
\* that has a "content" array or lacks the key.
Responses ==
    { r \in [ status_code : {200, 401},
              has_content : BOOLEAN,
              content     : SeqUpTo(RawRecords, MaxRecords) ] :
        ~r.has_content => r.content = << >> }

\* Passwords typed into the gate, and their SHA-256 digests (an injective
\* table standing for hashlib.sha256(...).hexdigest(), line 30).
Passwords == { "", "segredo", "errada" }

sha256_hexdigest(password) ==
    CASE password = ""        -> "e3b0c442"
      [] password = "segredo" -> "5f1d7a84"
      [] password = "errada"  -> "9c0f2b6e"

\* st.secrets["APP_PASSWORD_HASH"] (line 31).
APP_PASSWORD_HASH == "5f1d7a84"

\* Values of the two date inputs (lines 95-96).  The dates reach only the
\* request payload and the period line of the PDF, so one start date and two
\* end dates are enough.
StartDates == { "01-01-2026" }

EndDates == { "01-01-2026", "31-01-2026" }

-----------------------------------------------------------------------------
(* Record normalisation, lines 116-127 *)

\* The keys the dict literal of lines 118-124 subscripts.
RequiredKeys ==
    { "proposal_id", "proposal_date", "PacienteID", "status", "value",
      "proposer_name", "unidade" }

\* p["..."] and p["unidade"]["nome_fantasia"] all succeed (no KeyError).
HasRequiredKeys(p) ==
    /\ RequiredKeys \subseteq DOMAIN p
    /\ "nome_fantasia" \in DOMAIN p.unidade

\* The dict built for one proposal (lines 117-125).
Row(p) ==
    ("Proposta ID" :> p.proposal_id) @@ ("Data" :> p.proposal_date) @@
    ("Paciente ID" :> p.PacienteID) @@ ("Status" :> p.status) @@
    ("Valor Total (R$)" :> p.value) @@ ("Profissional" :> p.proposer_name) @@
    ("Unidade" :> p.unidade.nome_fantasia)

\* Faulty variant: proposals lacking a key are skipped and the rest is kept.
NormalizeSkippingMalformed(propostas) ==
    [ raised |-> FALSE,
      rows   |-> LET good == SelectSeq(propostas, HasRequiredKeys)
                 IN  [i \in 1..Len(good) |-> Row(good[i])] ]

\* The list comprehension of lines 116-127: one dict per proposal, in order;
\* the first proposal lacking a key raises KeyError and no list is built.
Normalize(propostas) ==
    IF \A i \in 1..Len(propostas) : HasRequiredKeys(propostas[i])
    THEN [ raised |-> FALSE,
           rows   |-> [i \in 1..Len(propostas) |-> Row(propostas[i])] ]
    ELSE [ raised |-> TRUE, rows |-> << >> ]

-----------------------------------------------------------------------------
(* Filter section, lines 132-168 *)

\* sorted(df[col].dropna().unique()): the options of one multiselect.  Only
\* the set of options matters for what can be selected.
Options(rows, col) == { rows[i][col] : i \in 1..Len(rows) } \ { Null }

\* df[df[col].isin(selection)]
Isin(rows, col, selection) ==
    SelectSeq(rows, LAMBDA r : r[col] \in selection)

\* Faulty variant: the branch selection is not applied.
CascadeWithoutUnidade(rows, f) ==
    LET a == IF f.status # {} THEN Isin(rows, "Status", f.status) ELSE rows
        b == IF f.profissional # {}
             THEN Isin(a, "Profissional", f.profissional) ELSE a
    IN  IF f.paciente # {} THEN Isin(b, "Paciente ID", f.paciente) ELSE b

\* The cascade of lines 154-164; `if filtro:` is true of a non-empty list.
Cascade(rows, f) ==
    LET a == IF f.status # {} THEN Isin(rows, "Status", f.status) ELSE rows
        b == IF f.profissional # {}
             THEN Isin(a, "Profissional", f.profissional) ELSE a
        c == IF f.unidade # {} THEN Isin(b, "Unidade", f.unidade) ELSE b
    IN  IF f.paciente # {} THEN Isin(c, "Paciente ID", f.paciente) ELSE c

\* Faulty variant: the empty check never fires.
AlwaysNonEmpty(rows) == FALSE

\* df.empty (line 166)
Empty(rows) == Len(rows) = 0

-----------------------------------------------------------------------------
(* Totals and number formatting, lines 72 and 170-182 *)

RECURSIVE SumValues(_)
\* df["Valor Total (R$)"].sum(), in cents
SumValues(rows) ==
    IF rows = << >> THEN 0
    ELSE Head(rows)["Valor Total (R$)"] + SumValues(Tail(rows))

DigitChars == << "0", "1", "2", "3", "4", "5", "6", "7", "8", "9" >>

RECURSIVE Digits(_)
\* decimal digits of n >= 0, no padding
Digits(n) ==
    IF n < 10 THEN << DigitChars[n + 1] >>
    ELSE Digits(n \div 10) \o << DigitChars[(n % 10) + 1] >>

\* three digits of n < 1000, zero padded
Pad3(n) ==
    << DigitChars[(n \div 100) + 1], DigitChars[((n \div 10) % 10) + 1],
       DigitChars[(n % 10) + 1] >>

RECURSIVE Grouped(_)
\* the "," option of the format spec: groups of three from the right
Grouped(n) ==
    IF n < 1000 THEN Digits(n)
    ELSE Grouped(n \div 1000) \o << "," >> \o Pad3(n % 1000)

\* f"{v:,.2f}" of an amount of `cents` hundredths
FormatCommaDot2f(cents) ==
    LET a == IF cents < 0 THEN -cents ELSE cents
    IN  (IF cents < 0 THEN << "-" >> ELSE << >>)
        \o Grouped(a \div 100) \o << "." >>
        \o << DigitChars[((a % 100) \div 10) + 1], DigitChars[(a % 10) + 1] >>

\* str.replace(old, new) for one-character old and new
Replace(s, old, new) ==
    [i \in 1..Len(s) |-> IF s[i] = old THEN new ELSE s[i]]

\* valor_formatado, lines 175-180
ValorFormatado(cents) ==
    Replace(Replace(Replace(FormatCommaDot2f(cents), ",", "X"), ".", ","),
            "X", ".")

\* The total-value text gerar_pdf writes after "Valor total: R$ " (line 72).
PdfValor(cents) == FormatCommaDot2f(cents)

-----------------------------------------------------------------------------
(* Branch summary, lines 194-223 *)

\* Faulty variant: any non-empty status counts as executed.
TipoByTruthiness(s) ==
    IF s \notin {"", Null} THEN "Executada" ELSE "Não executada"

\* lambda s: "Executada" if s == "Executada" else "Não executada" (line 198)
Tipo(s) == IF s = "Executada" THEN "Executada" ELSE "Não executada"

\* .groupby(["Unidade", "Tipo"]).size(): the groups present and their sizes.
\* groupby drops the rows whose key is NA (pandas default dropna=True).
GroupKeys(rows) ==
    { << rows[i]["Unidade"], Tipo(rows[i]["Status"]) >> :
        i \in { j \in 1..Len(rows) : rows[j]["Unidade"] # Null } }

GroupSize(rows, u, t) ==
    Cardinality({ i \in 1..Len(rows) :
                    rows[i]["Unidade"] = u /\ Tipo(rows[i]["Status"]) = t })

\* .unstack(fill_value=0).reset_index(): one row per Unidade of the groups,
\* one column per Tipo of the groups, 0 where a pair has no group.  The row
\* of a branch is keyed here by the branch (its "Unidade" cell).
Resumo(rows) ==
    LET keys == GroupKeys(rows)
        us   == { k[1] : k \in keys }
        ts   == { k[2] : k \in keys }
    IN  [ u \in us |->
            [ t \in ts |->
                IF << u, t >> \in keys THEN GroupSize(rows, u, t) ELSE 0 ] ]

\* row.get(key, 0) (lines 212-213)
Get(row, key) == IF key \in DOMAIN row THEN row[key] ELSE 0

\* The loop of lines 207-223: the two numbers written for each filial.
Linhas(resumo) ==
    [ filial \in DOMAIN resumo |->
        [ executadas     |-> Get(resumo[filial], "Executada"),
          nao_executadas |-> Get(resumo[filial], "Não executada") ] ]

-----------------------------------------------------------------------------
(* Export, lines 62-87 and 225-240 *)

\* df.values.tolist(): each row as the list of its cells in column order
Values(rows) ==
    [ i \in 1..Len(rows) |-> [ c \in 1..Len(Columns) |-> rows[i][Columns[c]] ] ]

\* df.to_csv(index=False): the header line and one line per row
ToCsv(rows) == << Columns >> \o Values(rows)

\* The elements gerar_pdf appends (lines 68-84).
gerar_pdf(rows, inicio, fim) ==
    << << "Relatório de Propostas" >>,
       << "Período: ", inicio, " a ", fim >>,
       << "Total de propostas: ", Len(rows) >>,
       << "Valor total: R$ ", PdfValor(SumValues(rows)) >>,
       << Columns >> \o Values(rows) >>


-----------------------------------------------------------------------------
VARIABLES
    session_state,   \* st.session_state: a dict with keys "authenticated", "df_base"
    pc,              \* position of the running script; "idle" between runs
    clicked,         \* the button whose click started this run, or "none"
    password,        \* value of the password text input in this run
    data_inicio,     \* values of the date inputs in this run
    data_fim,
    requests_sent,   \* HTTP requests sent in this run
    resultado,       \* the responses received in this run, in order
    filtros,         \* the four multiselect values of this run
    df,              \* the script's local df
    rendered,        \* widgets and elements the run has put on the page
    messages,        \* st.error / st.warning texts and uncaught exceptions of this run
    metrics,         \* st.metric labels and values of this run
    linhas,          \* the per-branch summary lines of this run
    csv,             \* data of the CSV download button
    pdf              \* elements of the PDF document

vars ==
    << session_state, pc, clicked, password, data_inicio, data_fim,
       requests_sent, resultado, filtros, df, rendered, messages, metrics,
       linhas, csv, pdf >>

NoFiltros == [status |-> {}, profissional |-> {}, unidade |-> {}, paciente |-> {}]

\* What a run starts from: nothing fetched, computed or shown yet.
FreshRun ==
    /\ requests_sent' = 0
    /\ resultado' = << >>
    /\ filtros' = NoFiltros
    /\ df' = None
    /\ rendered' = {}
    /\ messages' = {}
    /\ metrics' = << >>
    /\ linhas' = << >>
    /\ csv' = << >>
    /\ pdf' = << >>

Init ==
    /\ session_state = << >>
    /\ pc = "idle"
    /\ clicked = "none"
    /\ password = ""
    /\ data_inicio = "01-01-2026"
    /\ data_fim = "01-01-2026"
    /\ requests_sent = 0
    /\ resultado = << >>
    /\ filtros = NoFiltros
    /\ df = None
    /\ rendered = {}
    /\ messages = {}
    /\ metrics = << >>
    /\ linhas = << >>
    /\ csv = << >>
    /\ pdf = << >>

\* The buttons of the page as the last run left it.
Buttons == { "Entrar", "Buscar dados", "Baixar CSV", "Baixar PDF" }

\* The browser loads the page, or the user changes a widget or clicks a
\* button of the page: Streamlit runs the script from the top.  Only what
\* the last run rendered can be clicked or edited.
UserEvent ==
    /\ pc = "idle"
    /\ clicked' \in {"none"} \cup (Buttons \cap rendered)
    /\ password' \in IF "Senha" \in rendered THEN Passwords ELSE {password}
    /\ data_inicio' \in IF "Data início" \in rendered THEN StartDates ELSE {data_inicio}
    /\ data_fim' \in IF "Data fim" \in rendered THEN EndDates ELSE {data_fim}
    /\ pc' = "check_password"
    /\ FreshRun
    /\ UNCHANGED session_state

-----------------------------------------------------------------------------
(* Credential gate, lines 19-40 *)

\* Faulty variant: every password is accepted.
AnyPasswordMatches(pw) == TRUE

\* hashed == st.secrets["APP_PASSWORD_HASH"] (lines 30-31)
PasswordMatches(pw) == sha256_hexdigest(pw) = APP_PASSWORD_HASH

\* check_password() and the st.stop() of lines 39-40.  st.rerun() (line 33)
\* abandons the run and starts the script again with no button clicked.
CheckPassword ==
    /\ pc = "check_password"
    /\ LET ss == IF "authenticated" \in DOMAIN session_state
                 THEN session_state
                 ELSE ("authenticated" :> FALSE) @@ session_state
       IN  IF ss["authenticated"]
           THEN /\ session_state' = ss
                /\ pc' = "init_state"
                /\ UNCHANGED << clicked, rendered, messages >>
           ELSE IF clicked = "Entrar"
                THEN IF PasswordMatches(password)
                     THEN /\ session_state' = [ss EXCEPT !["authenticated"] = TRUE]
                          /\ pc' = "check_password"
                          /\ clicked' = "none"
                          /\ rendered' = {}
                          /\ UNCHANGED messages
                     ELSE /\ session_state' = ss
                          /\ messages' = messages \cup {"Senha inválida"}
                          /\ rendered' = rendered \cup {"Senha", "Entrar"}
                          /\ pc' = "idle"
                          /\ UNCHANGED clicked
                ELSE /\ session_state' = ss
                     /\ rendered' = rendered \cup {"Senha", "Entrar"}
                     /\ pc' = "idle"
                     /\ UNCHANGED << clicked, messages >>
    /\ UNCHANGED << password, data_inicio, data_fim, requests_sent, resultado,
                    filtros, df, metrics, linhas, csv, pdf >>

-----------------------------------------------------------------------------
(* Page header and session-state initialisation, lines 92-100 *)

InitState ==
    /\ pc = "init_state"
    /\ rendered' = rendered \cup {"Data início", "Data fim"}
    /\ session_state' =
         IF "df_base" \in DOMAIN session_state
         THEN session_state
         ELSE ("df_base" :> None) @@ session_state
    /\ pc' = "buscar"
    /\ UNCHANGED << clicked, password, data_inicio, data_fim, requests_sent,
                    resultado, filtros, df, messages, metrics, linhas, csv, pdf >>

-----------------------------------------------------------------------------
(* "Buscar dados" handler, lines 45-60 and 103-127 *)

\* Faulty variant: the status of the response is not looked at.
NeverRaises(response) == FALSE

\* response.raise_for_status() (line 59): raises HTTPError on a 4xx/5xx status
RaisesForStatus(response) == response.status_code >= 400

\* resultado.get("content", []) (line 110)
Propostas(response) ==
    IF response.has_content THEN response.content ELSE << >>

\* Faulty variant: an empty list of proposals is normalised like any other.
NeverEmpty(propostas) == FALSE

\* `not propostas` (line 112)
NoPropostas(propostas) == propostas = << >>

\* The handler's effect for one response: how the run goes on and what
\* st.session_state.df_base holds afterwards.
\*   listar_propostas raises          -> the run dies with HTTPError
\*   no proposals                     -> st.warning, st.stop()
\*   a proposal lacks a key           -> the run dies with KeyError
\*   otherwise                        -> df_base is assigned the new frame
Buscado(response, df_base) ==
    IF RaisesForStatus(response)
    THEN [ next |-> "idle", message |-> {"HTTPError"}, df_base |-> df_base ]
    ELSE IF NoPropostas(Propostas(response))
    THEN [ next |-> "idle", message |-> {"Nenhuma proposta encontrada."},
           df_base |-> df_base ]
    ELSE LET normalized == Normalize(Propostas(response))
         IN  IF normalized.raised
             THEN [ next |-> "idle", message |-> {"KeyError"}, df_base |-> df_base ]
             ELSE [ next |-> "filtros", message |-> {},
                    df_base |-> DataFrame(normalized.rows) ]

Buscar ==
    /\ pc = "buscar"
    /\ rendered' = rendered \cup {"Buscar dados"}
    /\ IF clicked = "Buscar dados"
       THEN \E response \in Responses :
              LET b == Buscado(response, session_state["df_base"])
              IN  /\ requests_sent' = requests_sent + 1
                  /\ resultado' = Append(resultado, response)
                  /\ session_state' = [session_state EXCEPT !["df_base"] = b.df_base]
                  /\ messages' = messages \cup b.message
                  /\ pc' = b.next
       ELSE /\ pc' = "filtros"
            /\ UNCHANGED << requests_sent, resultado, session_state, messages >>
    /\ UNCHANGED << clicked, password, data_inicio, data_fim, filtros, df,
                    metrics, linhas, csv, pdf >>

-----------------------------------------------------------------------------
(* Filter section, lines 132-168 *)

\* What the multiselects can return: any subsets of the options.
Selections(rows) ==
    [ status       : SUBSET Options(rows, "Status"),
      profissional : SUBSET Options(rows, "Profissional"),
      unidade      : SUBSET Options(rows, "Unidade"),
      paciente     : SUBSET Options(rows, "Paciente ID") ]

\* Faulty variant: the filters work on the session's frame itself.
FilteredInPlace(df_base, filtered) == filtered

\* df is a copy of the session's frame (line 133) and every filter binds df
\* to a new frame (lines 155-164): the session's frame keeps its rows.
BaseAfterFiltering(df_base, filtered) == df_base

Filtrar ==
    /\ pc = "filtros"
    /\ IF session_state["df_base"] = None
       THEN /\ pc' = "idle"
            /\ UNCHANGED << session_state, filtros, df, rendered, messages >>
       ELSE \E f \in Selections(session_state["df_base"].rows) :
              LET filtered == DataFrame(Cascade(session_state["df_base"].rows, f))
              IN  /\ rendered' = rendered \cup {"Filtros avançados"}
                  /\ filtros' = f
                  /\ df' = filtered
                  /\ session_state' =
                       [session_state EXCEPT !["df_base"] =
                          BaseAfterFiltering(session_state["df_base"], filtered)]
                  /\ IF Empty(filtered.rows)
                     THEN /\ messages' = messages \cup
                               {"Nenhum resultado com os filtros selecionados."}
                          /\ pc' = "idle"
                     ELSE /\ pc' = "resumo"
                          /\ UNCHANGED messages
    /\ UNCHANGED << clicked, password, data_inicio, data_fim, requests_sent,
                    resultado, metrics, linhas, csv, pdf >>

-----------------------------------------------------------------------------
(* Metrics and branch summary, lines 170-223 *)

Resumir ==
    /\ pc = "resumo"
    /\ metrics' =
         << << "Total de Propostas", Len(df.rows) >>,
            << "Valor Total (R$)", << "R", "$", " " >> \o ValorFormatado(SumValues(df.rows)) >> >>
    /\ linhas' = Linhas(Resumo(df.rows))
    /\ rendered' = rendered \cup {"metrics", "Resumo por Filial"}
    /\ pc' = "export"
    /\ UNCHANGED << session_state, clicked, password, data_inicio, data_fim,
                    requests_sent, resultado, filtros, df, messages, csv, pdf >>

-----------------------------------------------------------------------------
(* Table and downloads, lines 225-240 *)

Exportar ==
    /\ pc = "export"
    /\ csv' = ToCsv(df.rows)
    /\ pdf' = gerar_pdf(df.rows, data_inicio, data_fim)
    /\ rendered' = rendered \cup {"dataframe", "Baixar CSV", "Baixar PDF"}
    /\ pc' = "idle"
    /\ UNCHANGED << session_state, clicked, password, data_inicio, data_fim,
                    requests_sent, resultado, filtros, df, messages, metrics,
                    linhas >>

-----------------------------------------------------------------------------
Next ==
    \/ UserEvent
    \/ CheckPassword
    \/ InitState
    \/ Buscar
    \/ Filtrar
    \/ Resumir
    \/ Exportar

Spec == Init /\ [][Next]_vars

-----------------------------------------------------------------------------
(* Properties *)

\* The session's base table: None until a fetch has stored one.
BaseTable(ss) == IF "df_base" \in DOMAIN ss THEN ss["df_base"] ELSE None

Authenticated(ss) == "authenticated" \in DOMAIN ss /\ ss["authenticated"]

\* The response the running step has just received.
Received == resultado'[Len(resultado')]

Fetching == pc = "buscar" /\ Len(resultado') = Len(resultado) + 1

\* What a run derives and shows.
Outputs == << filtros, df, metrics, linhas, csv, pdf >>

\* Nothing has been filtered, summarised or exported in this run.
NothingDerived ==
    /\ df = None
    /\ metrics = << >>
    /\ DOMAIN linhas = {}
    /\ csv = << >>
    /\ pdf = << >>

\* The row passes every dimension that has a selection.
Selected(r, f) ==
    /\ f.status # {} => r["Status"] \in f.status
    /\ f.profissional # {} => r["Profissional"] \in f.profissional
    /\ f.unidade # {} => r["Unidade"] \in f.unidade
    /\ f.paciente # {} => r["Paciente ID"] \in f.paciente

\* Indices of the rows of a branch, and of its rows with a given property.
RowsOf(rows, u) == { i \in 1..Len(rows) : rows[i]["Unidade"] = u }

\* C1: whenever a run has filtered, the filtered table is the subsequence of
\* the base table's rows, in base order, that pass every dimension with a
\* non-empty selection; with no selection at all it is the base table, and
\* filtering it again with the same selections gives the same table.
C1_FilterIsMembershipSubsequence ==
    df # None =>
        LET base == session_state["df_base"].rows
        IN  /\ df.rows = SelectSeq(base, LAMBDA r : Selected(r, filtros))
            /\ filtros = NoFiltros => df.rows = base
            /\ Cascade(df.rows, filtros) = df.rows

C1_Witness ==
    /\ df # None
    /\ filtros.status # {}
    /\ filtros.unidade # {}
    /\ Len(df.rows) > 0
    /\ Len(df.rows) < Len(session_state["df_base"].rows)

\* C2: whenever the summary has been written, it has exactly one line per
\* branch name present in the filtered table, the line's executed count is the
\* number of the branch's rows whose status is exactly "Executada" and its
\* not-executed count the number of the branch's other rows (0 when there are
\* none, also when the whole table has none).
C2_SummaryPerBranch ==
    "Resumo por Filial" \in rendered =>
        LET rows == df.rows
            branches == { rows[i]["Unidade"] : i \in 1..Len(rows) } \ { Null }
        IN  /\ DOMAIN linhas = branches
            /\ \A u \in branches :
                 /\ linhas[u].executadas =
                      Cardinality({ i \in RowsOf(rows, u) :
                                      rows[i]["Status"] = "Executada" })
                 /\ linhas[u].nao_executadas =
                      Cardinality({ i \in RowsOf(rows, u) :
                                      rows[i]["Status"] # "Executada" })

C2_Witness ==
    /\ "Resumo por Filial" \in rendered
    /\ \A i \in 1..Len(df.rows) : df.rows[i]["Status"] # "Executada"
    /\ \E u \in DOMAIN linhas :
         linhas[u].executadas = 0 /\ linhas[u].nao_executadas = 2

RECURSIVE SumCounts(_, _)
SumCounts(ls, us) ==
    IF us = {} THEN 0
    ELSE LET u == CHOOSE x \in us : TRUE
         IN  ls[u].executadas + ls[u].nao_executadas + SumCounts(ls, us \ {u})

\* C3: whenever the summary has been written, each line's two counts add up
\* to the number of filtered rows of its branch, and all counts together add
\* up to the number of filtered rows.
C3_CountsAddUp ==
    "Resumo por Filial" \in rendered =>
        /\ \A u \in DOMAIN linhas :
             linhas[u].executadas + linhas[u].nao_executadas =
                Cardinality(RowsOf(df.rows, u))
        /\ SumCounts(linhas, DOMAIN linhas) = Len(df.rows)

\* C4: while the session is not authenticated the base table does not exist
\* and nothing is fetched, filtered, summarised or exported; the flag turns
\* true only in the gate, on a click of Entrar with a password whose hash is
\* the stored hash; a click with another password reports "Senha inválida"
\* and leaves the flag false; a true flag stays true.
C4_CredentialGate ==
    /\ [](~Authenticated(session_state) =>
            /\ "df_base" \notin DOMAIN session_state
            /\ pc \in {"idle", "check_password"}
            /\ requests_sent = 0
            /\ NothingDerived)
    /\ [][(~Authenticated(session_state) /\ Authenticated(session_state')) =>
            /\ pc = "check_password"
            /\ clicked = "Entrar"
            /\ sha256_hexdigest(password) = APP_PASSWORD_HASH]_vars
    /\ [][(/\ pc = "check_password"
           /\ ~Authenticated(session_state)
           /\ clicked = "Entrar"
           /\ sha256_hexdigest(password) # APP_PASSWORD_HASH) =>
            /\ "Senha inválida" \in messages'
            /\ ~Authenticated(session_state')
            /\ pc' = "idle"]_vars
    /\ [][Authenticated(session_state) => Authenticated(session_state')]_vars

C4_Witness ==
    /\ ~Authenticated(session_state)
    /\ clicked = "Entrar"
    /\ password = "errada"
    /\ "Senha inválida" \in messages

\* C5: a fetch that succeeds with a missing or empty content array warns
\* "Nenhuma proposta encontrada.", stops the run and leaves the session state,
\* the base table in it included, as it was; nothing is filtered, summarised
\* or exported in that run.
C5_EmptyFetchKeepsBase ==
    /\ [][(/\ Fetching
           /\ Received.status_code < 400
           /\ (~Received.has_content \/ Received.content = << >>)) =>
            /\ session_state' = session_state
            /\ "Nenhuma proposta encontrada." \in messages'
            /\ pc' = "idle"
            /\ UNCHANGED Outputs]_vars
    /\ []("Nenhuma proposta encontrada." \in messages =>
            pc = "idle" /\ NothingDerived)

C5_Witness ==
    /\ "Nenhuma proposta encontrada." \in messages
    /\ resultado # << >>
    /\ ~resultado[1].has_content
    /\ session_state["df_base"] # None

\* C6: a fetch answered with an error status ends the run with the HTTPError,
\* leaves the session state as it was, filters, summarises and exports
\* nothing, and the request is not sent again: a run sends at most one.
C6_FailedFetchAborts ==
    /\ [][(Fetching /\ Received.status_code >= 400) =>
            /\ session_state' = session_state
            /\ "HTTPError" \in messages'
            /\ pc' = "idle"
            /\ requests_sent' = 1
            /\ UNCHANGED Outputs]_vars
    /\ []("HTTPError" \in messages => pc = "idle" /\ NothingDerived)
    /\ [](requests_sent <= 1 /\ Len(resultado) = requests_sent)

C6_Witness ==
    /\ "HTTPError" \in messages
    /\ resultado[1].content # << >>
    /\ session_state["df_base"] # None

\* C7: a successful fetch of at least one record either stores a base table
\* with one row per record, in order, each row holding the record's seven
\* fields (when every record has all the keys), or fails with KeyError and
\* leaves the session state as it was (when some record lacks a key).
C7_NormalizeAllOrNothing ==
    [][(Fetching /\ Received.status_code < 400 /\ Received.has_content
          /\ Received.content # << >>) =>
        LET raw == Received.content
            new == session_state'["df_base"]
        IN  IF \A i \in 1..Len(raw) : HasRequiredKeys(raw[i])
            THEN /\ new # None
                 /\ Len(new.rows) = Len(raw)
                 /\ \A i \in 1..Len(raw) :
                      /\ new.rows[i]["Proposta ID"] = raw[i].proposal_id
                      /\ new.rows[i]["Data"] = raw[i].proposal_date
                      /\ new.rows[i]["Paciente ID"] = raw[i].PacienteID
                      /\ new.rows[i]["Status"] = raw[i].status
                      /\ new.rows[i]["Valor Total (R$)"] = raw[i].value
                      /\ new.rows[i]["Profissional"] = raw[i].proposer_name
                      /\ new.rows[i]["Unidade"] = raw[i].unidade.nome_fantasia
            ELSE /\ session_state' = session_state
                 /\ "KeyError" \in messages'
                 /\ pc' = "idle"
                 /\ UNCHANGED Outputs]_vars

C7_Witness ==
    /\ "KeyError" \in messages
    /\ Len(resultado[1].content) = 2
    /\ HasRequiredKeys(resultado[1].content[1])
    /\ session_state["df_base"] # None

\* C8: once the PDF has been generated, the total-value text in it is the
\* text of the on-screen total ("R$ " and the amount with "." between
\* thousands and "," before the two decimals).
C8_PdfTotalIsScreenTotal ==
    "Baixar PDF" \in rendered =>
        /\ metrics[2][2] = << "R", "$", " " >> \o pdf[4][2]
        /\ pdf[4][2] = ValorFormatado(SumValues(df.rows))

\* C9: the base table changes only in a fetch that succeeds with at least one
\* record, all records well formed, and becomes the normalisation of that
\* fetch; the filter, summary and export steps leave the session state as it
\* is, and the filter step filters the whole base table.
C9_OnlyFetchWritesBase ==
    /\ [][BaseTable(session_state') # BaseTable(session_state) =>
            /\ Fetching
            /\ clicked = "Buscar dados"
            /\ Received.status_code < 400
            /\ Received.has_content
            /\ Received.content # << >>
            /\ \A i \in 1..Len(Received.content) :
                 HasRequiredKeys(Received.content[i])
            /\ BaseTable(session_state') =
                 DataFrame([i \in 1..Len(Received.content) |->
                              Row(Received.content[i])])]_vars
    /\ [][(pc \in {"filtros", "resumo", "export"}) =>
            session_state' = session_state]_vars
    /\ [][(pc = "filtros" /\ df' # None) =>
            df'.rows = Cascade(session_state["df_base"].rows, filtros')]_vars

C9_Witness ==
    /\ pc = "idle"
    /\ resultado = << >>
    /\ df # None
    /\ "Baixar CSV" \in rendered
    /\ Len(df.rows) < Len(session_state["df_base"].rows)

\* C10: a run whose filtered table is empty stops with the notice "Nenhum
\* resultado com os filtros selecionados." (not the empty-fetch notice) and
\* produces no metric, summary, CSV or PDF; the filter step leaves the
\* session state as it is; and whatever metric, summary, CSV or PDF a run has
\* produced comes from its non-empty filtered table.
C10_EmptyAfterFilter ==
    /\ []((df # None /\ df.rows = << >>) =>
            /\ messages = {"Nenhum resultado com os filtros selecionados."}
            /\ pc = "idle"
            /\ metrics = << >>
            /\ DOMAIN linhas = {}
            /\ csv = << >>
            /\ pdf = << >>
            /\ rendered \cap {"metrics", "Resumo por Filial", "dataframe",
                              "Baixar CSV", "Baixar PDF"} = {})
    /\ []((metrics # << >> \/ csv # << >> \/ pdf # << >>
             \/ "Resumo por Filial" \in rendered) =>
            /\ df # None
            /\ df.rows # << >>
            /\ messages = {}
            /\ metrics[1][2] = Len(df.rows)
            /\ DOMAIN linhas \subseteq
                 { df.rows[i]["Unidade"] : i \in 1..Len(df.rows) }
            /\ csv # << >> => Tail(csv) = Values(df.rows)
            /\ pdf # << >> =>
                 pdf[3][2] = Len(df.rows) /\ Tail(pdf[5]) = Values(df.rows))
    /\ [][pc = "filtros" => session_state' = session_state]_vars

C10_Witness ==
    /\ pc = "idle"
    /\ df # None
    /\ df.rows = << >>
    /\ filtros.unidade # {}
    /\ Len(session_state["df_base"].rows) = 2

====
